---- MODULE Spec2Model ----
(***************************************************************************)
(* Model of the QuantumTutor conversation core (ConversationMemory,        *)
(* QuantumTutorAgent) and of the Flask routes that drive it (src/app.py).  *)
(*                                                                         *)
(* A Python str is a sequence of code points.  A printable ASCII code      *)
(* point, a newline, a tab or a carriage return is the one-character       *)
(* string ("a", " ", "\n"); any other code point is written "U+XXXX".      *)
(* Wall-clock values (timestamps, response times, the average response     *)
(* time and the session duration) are not part of the state.               *)
(***************************************************************************)
EXTENDS Integers, Sequences, FiniteSets, TLC

VARIABLES
    agent,          \* QuantumTutorWebApp.agent is not None
    history,        \* agent.memory.history
    max_history,    \* agent.memory.max_history
    session_stats,  \* agent.session_stats (total_queries)
    web_stats,      \* QuantumTutorWebApp.session_stats
    calls,          \* number of groq_client.chat.completions.create calls made
    added,          \* every interaction given to add_interaction of this memory
    op,             \* the last operation: its input, run's result, the reply
    threads         \* the /chat requests in flight: position and local values

vars ==
    <<agent, history, max_history, session_stats, web_stats, calls, added, op,
      threads>>

(***************************************************************************)
(* Bounds of the exploration.                                              *)
(***************************************************************************)
MaxQueries == 3
MaxOver == 2
MaxCap == 3
MaxAdds == 5
MaxCtx == 4
MaxApply == 2

(***************************************************************************)
(* str helpers.                                                            *)
(***************************************************************************)
UPPER ==
    <<"A","B","C","D","E","F","G","H","I","J","K","L","M","N","O","P","Q","R",
      "S","T","U","V","W","X","Y","Z">>
LOWER ==
    <<"a","b","c","d","e","f","g","h","i","j","k","l","m","n","o","p","q","r",
      "s","t","u","v","w","x","y","z">>
DIGITS ==
    <<"0","1","2","3","4","5","6","7","8","9">>
\* the code points str.strip() removes (those for which str.isspace() holds);
\* a control character without an escape of its own is written "U+XXXX" too
WHITESPACE ==
    {" ", "\n", "\t", "\r", "U+000B", "U+000C", "U+001C", "U+001D", "U+001E",
     "U+001F", "U+0085", "U+00A0", "U+1680", "U+2000", "U+2001", "U+2002",
     "U+2003", "U+2004", "U+2005", "U+2006", "U+2007", "U+2008", "U+2009",
     "U+200A", "U+2028", "U+2029", "U+202F", "U+205F", "U+3000"}

Range(s) == {s[i] : i \in DOMAIN s}

UpperChars == Range(UPPER)
ToLower == [c \in UpperChars |-> LOWER[CHOOSE i \in DOMAIN UPPER : UPPER[i] = c]]

\* str.lower() on one code point, and on a str
lower_char(c) == IF c \in UpperChars THEN ToLower[c] ELSE c
lower(s) == [i \in 1..Len(s) |-> lower_char(s[i])]

\* `needle in s`
contains(needle, s) ==
    \/ needle = <<>>
    \/ \E i \in 1..(Len(s) - Len(needle) + 1) :
        /\ s[i] = needle[1]
        /\ SubSeq(s, i, i + Len(needle) - 1) = needle

\* str.strip()
RECURSIVE lstrip(_)
lstrip(s) ==
    IF s # <<>> /\ Head(s) \in WHITESPACE THEN lstrip(Tail(s)) ELSE s
RECURSIVE rstrip(_)
rstrip(s) ==
    IF s # <<>> /\ s[Len(s)] \in WHITESPACE
    THEN rstrip(SubSeq(s, 1, Len(s) - 1))
    ELSE s
\* faulty variant of strip: the text is not trimmed
strip_nothing(s) == s

strip(s) == rstrip(lstrip(s))

\* str(n) for an int n >= 0
RECURSIVE str(_)
str(n) ==
    IF n < 10 THEN <<DIGITS[n + 1]>>
    ELSE str(n \div 10) \o <<DIGITS[(n % 10) + 1]>>

\* sep.join(parts)
RECURSIVE join(_, _)
join(sep, parts) ==
    IF parts = <<>> THEN <<>>
    ELSE IF Len(parts) = 1 THEN parts[1]
    ELSE parts[1] \o sep \o join(sep, Tail(parts))

\* \w of the re module: alphanumeric or underscore (none of the code points
\* written "U+XXXX" in this module is alphanumeric)
WordChars == Range(UPPER) \cup Range(LOWER) \cup Range(DIGITS) \cup {"_"}
IsWordChar(c) == c \in WordChars

(***************************************************************************)
(* String literals of the source.                                          *)
(***************************************************************************)
s_followup_ ==
    <<"f","o","l","l","o","w","u","p","_">>
s_general ==
    <<"g","e","n","e","r","a","l">>
s_help ==
    <<"h","e","l","p">>
s_progress ==
    <<"p","r","o","g","r","e","s","s">>
s_error ==
    <<"e","r","r","o","r">>
s_None ==
    <<"N","o","n","e">>
s_oops ==
    <<"U+1F527"," ","O","o","p","s","!"," ","A","n"," ","e","r","r","o","r",
      " ","o","c","c","u","r","r","e","d",":"," ">>
s_welcome ==
    <<"U+1F31F"," ","W","e","l","c","o","m","e","!"," ","W","e"," ","h","a",
      "v","e","n","'","t"," ","s","t","a","r","t","e","d"," ","o","u","r"," ",
      "l","e","a","r","n","i","n","g"," ","j","o","u","r","n","e","y"," ","y",
      "e","t",".">>
s_summary_total ==
    <<"U+1F4CA"," ","*","*","S","e","s","s","i","o","n"," ","S","u","m","m",
      "a","r","y","*","*","\n","U+2022"," ","*","*","T","o","t","a","l"," ",
      "q","u","e","s","t","i","o","n","s"," ","a","s","k","e","d","*","*",":",
      " ">>
s_summary_topics ==
    <<"\n","U+2022"," ","*","*","T","o","p","i","c","s"," ","e","x","p","l",
      "o","r","e","d","*","*",":"," ">>
s_summary_most ==
    <<"\n","U+2022"," ","*","*","M","o","s","t"," ","d","i","s","c","u","s",
      "s","e","d"," ","t","o","p","i","c","*","*",":"," ">>
s_comma ==
    <<","," ">>
s_not_initialized ==
    <<"S","y","s","t","e","m"," ","n","o","t"," ","i","n","i","t","i","a","l",
      "i","z","e","d">>
s_empty_message ==
    <<"E","m","p","t","y"," ","m","e","s","s","a","g","e">>
s_agent_not_initialized ==
    <<"A","g","e","n","t"," ","n","o","t"," ","i","n","i","t","i","a","l","i",
      "z","e","d">>
s_no_get ==
    <<"'","N","o","n","e","T","y","p","e","'"," ","o","b","j","e","c","t"," ",
      "h","a","s"," ","n","o"," ","a","t","t","r","i","b","u","t","e"," ","'",
      "g","e","t","'">>
s_start ==
    <<"T","h","i","s"," ","i","s"," ","t","h","e"," ","s","t","a","r","t"," ",
      "o","f"," ","o","u","r"," ","c","o","n","v","e","r","s","a","t","i","o",
      "n",".">>
s_recent ==
    <<"R","e","c","e","n","t"," ","c","o","n","v","e","r","s","a","t","i","o",
      "n"," ","c","o","n","t","e","x","t",":"," ">>
s_semicolon ==
    <<";"," ">>
s_ellipsis ==
    <<".",".",".">>
s_prompt_persona ==
    <<"Y","o","u"," ","a","r","e"," ","Q","u","a","n","t","u","m","T","u","t",
      "o","r"," ","U+1F916",","," ","a","n"," ","e","x","p","e","r","t"," ",
      "q","u","a","n","t","u","m"," ","c","o","m","p","u","t","i","n","g"," ",
      "t","u","t","o","r","."," ","C","O","N","V","E","R","S","A","T","I","O",
      "N"," ","C","O","N","T","E","X","T",":"," ">>
s_prompt_query ==
    <<"."," ","C","U","R","R","E","N","T"," ","Q","U","E","R","Y",":"," ","'">>
s_prompt_category ==
    <<"'","."," ","Q","U","E","R","Y"," ","C","A","T","E","G","O","R","Y",":",
      " ">>
s_prompt_progress ==
    <<"."," ","L","E","A","R","N","I","N","G"," ","P","R","O","G","R","E","S",
      "S",":"," ">>
s_prompt_instructions ==
    <<"."," ","I","n","s","t","r","u","c","t","i","o","n","s",":"," ","B","e",
      " ","f","r","i","e","n","d","l","y",","," ","u","s","e"," ","s","i","m",
      "p","l","e"," ","a","n","a","l","o","g","i","e","s",","," ","a","n","d",
      " ","k","e","e","p"," ","r","e","s","p","o","n","s","e","s"," ","e","n",
      "g","a","g","i","n","g"," ","a","n","d"," ","w","e","l","l","-","s","t",
      "r","u","c","t","u","r","e","d",".">>
s_new_learner ==
    <<"N","e","w"," ","l","e","a","r","n","e","r">>

\* ConversationMemory.is_follow_up_question: indicators
indicators == <<
        <<"e","x","p","l","a","i","n"," ","m","o","r","e">>,
        <<"t","e","l","l"," ","m","e"," ","m","o","r","e">>,
        <<"w","h","a","t"," ","a","b","o","u","t">>,
        <<"h","o","w"," ","a","b","o","u","t">>,
        <<"a","l","s","o">>,
        <<"w","h","y">>,
        <<"h","o","w">>
    >>

\* QuantumTutorAgent.classify_query: rules, in declaration order
rules == <<
    [category |->
    <<"c","o","d","e">>,
     keywords |-> <<
        <<"c","o","d","e">>,
        <<"p","y","t","h","o","n">>,
        <<"p","r","o","g","r","a","m">>,
        <<"q","i","s","k","i","t">>
    >>],
    [category |->
    <<"r","e","s","e","a","r","c","h">>,
     keywords |-> <<
        <<"a","r","x","i","v">>,
        <<"p","a","p","e","r">>,
        <<"r","e","s","e","a","r","c","h">>
    >>],
    [category |->
    <<"c","o","m","p","a","r","i","s","o","n">>,
     keywords |-> <<
        <<"d","i","f","f","e","r","e","n","c","e">>,
        <<"v","s">>,
        <<"c","o","m","p","a","r","e">>
    >>],
    [category |->
    <<"m","a","t","h">>,
     keywords |-> <<
        <<"f","o","r","m","u","l","a">>,
        <<"e","q","u","a","t","i","o","n">>,
        <<"m","a","t","h">>
    >>],
    [category |->
    <<"a","p","p","l","i","c","a","t","i","o","n">>,
     keywords |-> <<
        <<"a","p","p","l","i","c","a","t","i","o","n">>,
        <<"r","e","a","l"," ","w","o","r","l","d">>,
        <<"u","s","e"," ","c","a","s","e">>
    >>],
    [category |->
    <<"h","i","s","t","o","r","y">>,
     keywords |-> <<
        <<"h","i","s","t","o","r","y">>,
        <<"w","h","o"," ","d","i","s","c","o","v","e","r","e","d">>
    >>],
    [category |->
    <<"f","u","n">>,
     keywords |-> <<
        <<"f","u","n"," ","f","a","c","t">>,
        <<"j","o","k","e">>,
        <<"t","r","i","v","i","a">>
    >>],
    [category |->
    <<"q","u","i","z">>,
     keywords |-> <<
        <<"m","c","q">>,
        <<"q","u","i","z">>,
        <<"t","e","s","t">>
    >>],
    [category |->
    <<"h","e","l","p">>,
     keywords |-> <<
        <<"h","e","l","p">>,
        <<"w","h","a","t"," ","c","a","n"," ","y","o","u"," ","d","o">>
    >>],
    [category |->
    <<"p","r","o","g","r","e","s","s">>,
     keywords |-> <<
        <<"p","r","o","g","r","e","s","s">>,
        <<"s","u","m","m","a","r","y">>
    >>]
    >>

\* QuantumTutorAgent.format_response: replacements, in declaration order
replacements == <<
    [term |->
    <<"q","u","a","n","t","u","m">>,
     replacement |->
    <<"Q","u","a","n","t","u","m"," ","U+269B","U+FE0F">>],
    [term |->
    <<"e","n","t","a","n","g","l","e","m","e","n","t">>,
     replacement |->
    <<"e","n","t","a","n","g","l","e","m","e","n","t"," ","U+1F517">>],
    [term |->
    <<"s","u","p","e","r","p","o","s","i","t","i","o","n">>,
     replacement |->
    <<"s","u","p","e","r","p","o","s","i","t","i","o","n"," ","U+26A1">>],
    [term |->
    <<"q","u","b","i","t">>,
     replacement |->
    <<"q","u","b","i","t"," ","U+1F3AF">>],
    [term |->
    <<"c","i","r","c","u","i","t">>,
     replacement |->
    <<"c","i","r","c","u","i","t"," ","U+1F50C">>]
    >>

\* QuantumTutorAgent.get_help_response
get_help_response ==
    <<"U+1F916"," ","*","*","Q","u","a","n","t","u","m","T","u","t","o","r",
      " ","C","a","p","a","b","i","l","i","t","i","e","s","*","*","\n","\n",
      "I"," ","c","a","n"," ","h","e","l","p"," ","y","o","u"," ","w","i","t",
      "h",":","\n","U+2022"," ","U+1F4BB"," ","*","*","C","o","d","e","*","*",
      ":"," ","P","y","t","h","o","n","/","Q","i","s","k","i","t"," ","e","x",
      "a","m","p","l","e","s","\n","U+2022"," ","U+1F4DA"," ","*","*","R","e",
      "s","e","a","r","c","h","*","*",":"," ","a","r","X","i","v"," ","p","a",
      "p","e","r"," ","s","u","g","g","e","s","t","i","o","n","s","\n",
      "U+2022"," ","U+2696","U+FE0F"," ","*","*","C","o","m","p","a","r","i",
      "s","o","n","s","*","*",":"," ","C","l","a","s","s","i","c","a","l"," ",
      "v","s","."," ","Q","u","a","n","t","u","m"," ","c","o","n","c","e","p",
      "t","s","\n","U+2022"," ","U+1F30D"," ","*","*","A","p","p","l","i","c",
      "a","t","i","o","n","s","*","*",":"," ","R","e","a","l","-","w","o","r",
      "l","d"," ","u","s","e"," ","c","a","s","e","s","\n","U+2022"," ",
      "U+1F3AF"," ","*","*","Q","u","i","z","z","e","s","*","*",":"," ","T",
      "e","s","t"," ","y","o","u","r"," ","k","n","o","w","l","e","d","g","e",
      "\n","\n","T","r","y"," ","a","s","k","i","n","g",":"," ","*","'","E",
      "x","p","l","a","i","n"," ","q","u","a","n","t","u","m"," ","s","u","p",
      "e","r","p","o","s","i","t","i","o","n","'","*"," ","o","r"," ","*","'",
      "S","h","o","w"," ","m","e"," ","a"," ","s","i","m","p","l","e"," ","Q",
      "i","s","k","i","t"," ","c","i","r","c","u","i","t","'","*",".">>

(***************************************************************************)
(* ConversationMemory                                                      *)
(***************************************************************************)
DefaultMaxHistory == 10

\* the dict built by add_interaction (timestamp and metadata left out)
Interaction(user_message, bot_response, category) ==
    [user_message |-> user_message,
     bot_response |-> bot_response,
     category |-> category]

\* list[-n:]
last_n(list, n) ==
    IF n = 0 \/ n >= Len(list) THEN list
    ELSE SubSeq(list, Len(list) - n + 1, Len(list))

\* s[:n]
first_n(s, n) == IF n >= Len(s) THEN s ELSE SubSeq(s, 1, n)

\* faulty variant of add_interaction: the list is never truncated
add_interaction_unbounded(hist, maxh, interaction) == Append(hist, interaction)

\* ConversationMemory.add_interaction: the new value of history
add_interaction(hist, maxh, interaction) ==
    LET appended == Append(hist, interaction)
    IN  IF Len(appended) > maxh THEN last_n(appended, maxh) ELSE appended

\* faulty variant of get_context_summary: the first three interactions are rendered
get_context_summary_first_three(hist) ==
    LET recent == SubSeq(hist, 1, IF Len(hist) < 3 THEN Len(hist) ELSE 3)
        recent_topics ==
            [i \in DOMAIN recent |->
                <<"(">> \o recent[i].category \o <<")", ":", " ">>
                \o first_n(recent[i].user_message, 50) \o s_ellipsis]
    IN  IF hist = <<>> THEN s_start
        ELSE s_recent \o join(s_semicolon, recent_topics)

\* ConversationMemory.get_context_summary
get_context_summary(hist) ==
    LET recent == last_n(hist, 3)
        recent_topics ==
            [i \in DOMAIN recent |->
                <<"(">> \o recent[i].category \o <<")", ":", " ">>
                \o first_n(recent[i].user_message, 50) \o s_ellipsis]
    IN  IF hist = <<>> THEN s_start
        ELSE s_recent \o join(s_semicolon, recent_topics)

\* categories[cat] = categories.get(cat, 0) + 1 on an insertion-ordered dict,
\* kept as a sequence of [key, value] in insertion order
dict_increment(categories, cat) ==
    IF \E i \in DOMAIN categories : categories[i].key = cat
    THEN [i \in DOMAIN categories |->
            IF categories[i].key = cat
            THEN [key |-> cat, value |-> categories[i].value + 1]
            ELSE categories[i]]
    ELSE Append(categories, [key |-> cat, value |-> 1])

\* ConversationMemory.get_learning_progress
RECURSIVE get_learning_progress(_)
get_learning_progress(hist) ==
    IF hist = <<>> THEN <<>>
    ELSE dict_increment(get_learning_progress(SubSeq(hist, 1, Len(hist) - 1)),
                        hist[Len(hist)].category)

\* ConversationMemory.is_follow_up_question
is_follow_up_question(current_message) ==
    \E i \in DOMAIN indicators : contains(indicators[i], lower(current_message))

(***************************************************************************)
(* QuantumTutorAgent                                                       *)
(***************************************************************************)
\* re.sub(r'\bterm\b', replacement, text, flags=re.IGNORECASE): whether the
\* pattern matches at position i
matches_at(term, text, i) ==
    /\ i + Len(term) - 1 <= Len(text)
    /\ lower_char(text[i]) = term[1]
    /\ (i = 1 \/ ~IsWordChar(text[i - 1]))
    /\ lower(SubSeq(text, i, i + Len(term) - 1)) = term
    /\ (i + Len(term) > Len(text) \/ ~IsWordChar(text[i + Len(term)]))

\* the leftmost non-overlapping matches are replaced: from position i the text
\* up to the next match is copied, the match replaced, and the scan resumes
\* behind it
RECURSIVE re_sub_from(_, _, _, _)
re_sub_from(term, replacement, text, i) ==
    LET found == {j \in i..Len(text) : matches_at(term, text, j)}
    IN  IF found = {} THEN SubSeq(text, i, Len(text))
        ELSE LET j == CHOOSE m \in found : \A n \in found : m <= n
             IN  SubSeq(text, i, j - 1) \o replacement
                 \o re_sub_from(term, replacement, text, j + Len(term))

\* faulty variant of re_sub: a text that already holds the decorated term is left as it is
re_sub_unless_decorated(term, replacement, text) ==
    IF contains(replacement, text) THEN text
    ELSE re_sub_from(term, replacement, text, 1)

re_sub(term, replacement, text) == re_sub_from(term, replacement, text, 1)

\* QuantumTutorAgent.format_response: the substitutions applied in order
RECURSIVE format_from(_, _)
format_from(k, text) ==
    IF k > Len(replacements) THEN text
    ELSE format_from(k + 1,
            re_sub(replacements[k].term, replacements[k].replacement, text))

format_response(text) == format_from(1, text)

\* whether a rule of the table has a keyword in the lowered message
rule_matches(rule, lowered) ==
    \E k \in DOMAIN rule.keywords : contains(rule.keywords[k], lowered)

\* faulty variant of classify_query: the keyword rules are tried before the follow-up
\* check
classify_query_rules_first(message, hist) ==
    LET lowered == lower(message)
        hits == {r \in DOMAIN rules : rule_matches(rules[r], lowered)}
    IN  IF hits # {}
        THEN rules[CHOOSE r \in hits : \A q \in hits : r <= q].category
        ELSE IF is_follow_up_question(message) /\ hist # <<>>
        THEN s_followup_ \o hist[Len(hist)].category
        ELSE s_general

\* faulty variant of classify_query: the last matching rule wins
classify_query_last_rule(message, hist) ==
    LET lowered == lower(message)
        hits == {r \in DOMAIN rules : rule_matches(rules[r], lowered)}
    IN  IF is_follow_up_question(message) /\ hist # <<>>
        THEN s_followup_ \o hist[Len(hist)].category
        ELSE IF hits # {}
        THEN rules[CHOOSE r \in hits : \A q \in hits : r >= q].category
        ELSE s_general

\* QuantumTutorAgent.classify_query
classify_query(message, hist) ==
    LET lowered == lower(message)
        hits == {r \in DOMAIN rules : rule_matches(rules[r], lowered)}
    IN  IF is_follow_up_question(message) /\ hist # <<>>
        THEN s_followup_ \o hist[Len(hist)].category
        ELSE IF hits # {}
        THEN rules[CHOOSE r \in hits : \A q \in hits : r <= q].category
        ELSE s_general

\* str(progress) for a dict of str keys and int values; the keys, categories,
\* hold letters and underscores only, so their repr is the key in single
\* quotes
dict_str(progress) ==
    <<"{">>
    \o join(s_comma,
            [i \in DOMAIN progress |->
                <<"'">> \o progress[i].key \o <<"'", ":", " ">>
                \o str(progress[i].value)])
    \o <<"}">>

\* QuantumTutorAgent.build_contextual_prompt
build_contextual_prompt(message, category, hist) ==
    LET context == get_context_summary(hist)
        progress == get_learning_progress(hist)
    IN  s_prompt_persona \o context
        \o s_prompt_query \o message
        \o s_prompt_category \o category
        \o s_prompt_progress
        \o (IF progress # <<>> THEN dict_str(progress) ELSE s_new_learner)
        \o s_prompt_instructions

\* faulty variant of max_key: the last key with the greatest value
max_key_last(progress) ==
    LET best == CHOOSE i \in DOMAIN progress :
                    /\ \A j \in DOMAIN progress :
                            progress[j].value <= progress[i].value
                    /\ \A j \in DOMAIN progress :
                            j > i => progress[j].value < progress[i].value
    IN  progress[best].key

\* max(progress, key=progress.get): the first key with the greatest value
max_key(progress) ==
    LET best == CHOOSE i \in DOMAIN progress :
                    /\ \A j \in DOMAIN progress :
                            progress[j].value <= progress[i].value
                    /\ \A j \in DOMAIN progress :
                            j < i => progress[j].value < progress[i].value
    IN  progress[best].key

\* QuantumTutorAgent.generate_session_summary
generate_session_summary(hist) ==
    LET progress == get_learning_progress(hist)
        total == Len(hist)
        most_discussed == IF progress # <<>> THEN max_key(progress) ELSE s_None
        keys == [i \in DOMAIN progress |-> progress[i].key]
    IN  IF total = 0 THEN s_welcome
        ELSE s_summary_total \o str(total)
             \o s_summary_topics \o join(s_comma, keys)
             \o s_summary_most \o most_discussed

(***************************************************************************)
(* Inputs: request bodies of POST /chat and answers of the completion      *)
(* provider.                                                               *)
(***************************************************************************)
m_help ==
    <<"h","e","l","p">>
m_progress ==
    <<" ","m","y"," ","p","r","o","g","r","e","s","s","\n">>
m_math ==
    <<"m","a","t","h"," ","f","o","r","m","u","l","a">>
m_show_code ==
    <<"s","h","o","w"," ","m","e"," ","c","o","d","e">>
m_hello ==
    <<"h","e","l","l","o">>
m_why_help ==
    <<"W","H","Y"," ","h","e","l","p">>
m_blank ==
    <<" ","\t","U+00A0">>

Messages == {m_help, m_progress, m_math, m_show_code, m_hello, m_why_help,
             m_blank, <<>>}

\* request.json: None, a dict without 'message', or a dict with it
Requests ==
    {[is_dict |-> FALSE, has_message |-> FALSE, message |-> <<>>],
     [is_dict |-> TRUE, has_message |-> FALSE, message |-> <<>>]}
    \cup {[is_dict |-> TRUE, has_message |-> TRUE, message |-> m] : m \in Messages}

c_qubit ==
    <<"a"," ","q","u","b","i","t">>
e_timeout ==
    <<"t","i","m","e","o","u","t">>

\* what groq_client.chat.completions.create does when called: it returns a
\* completion with this content, or raises an exception with this text
Completions ==
    {[asked |-> TRUE, ok |-> TRUE, text |-> c_qubit],
     [asked |-> TRUE, ok |-> FALSE, text |-> e_timeout]}

\* groq_client.chat.completions.create(messages=[... prompt ...]) as it took
\* place: the prompt given and the provider's answer
create(prompt, completion) ==
    [asked |-> completion.asked, ok |-> completion.ok, text |-> completion.text,
     prompt |-> prompt]

\* the provider is not called
NoCompletion == [asked |-> FALSE, ok |-> TRUE, text |-> <<>>]

(***************************************************************************)
(* QuantumTutorAgent.run(message), in the state (hist, maxh).  completion  *)
(* is the provider's answer, used only if the provider is called.          *)
(***************************************************************************)
\* faulty variant of is_local: only "help" is answered locally
is_local_help_only(category) == category = s_help

\* faulty variant of is_local: any category that mentions "help" or "progress" is answered
\* locally
is_local_by_substring(category) ==
    contains(s_help, category) \/ contains(s_progress, category)

\* the category branches that answer locally
is_local(category) == category = s_help \/ category = s_progress

\* response_content of the branch taken
response_content(category, hist, completion) ==
    IF category = s_help THEN get_help_response
    ELSE IF category = s_progress THEN generate_session_summary(hist)
    ELSE completion.text

\* format_response(get_help_response()) does not depend on the state
formatted_help == format_response(get_help_response)

\* formatted_response: format_response(response_content)
formatted(category, hist, completion) ==
    IF category = s_help THEN formatted_help
    ELSE format_response(response_content(category, hist, completion))

\* whether run(message) calls the provider
asks_provider(message, hist) == ~is_local(classify_query(message, hist))

\* faulty variant of error_reply: an apology that leaves the exception text out
error_reply_without_detail(e) == [response |-> s_oops, category |-> s_error]

\* the except branch of run: the dict returned for exception text e
error_reply(e) == [response |-> s_oops \o e, category |-> s_error]

\* faulty variant of run: the except branch records the turn before it returns
run_recording_failures(message, hist, maxh, stats, completion) ==
    LET category == classify_query(message, hist)
        prompt == IF is_local(category) THEN <<>>
                  ELSE build_contextual_prompt(message, category, hist)
        raised == ~is_local(category) /\ ~completion.ok
        formatted_response == formatted(category, hist, completion)
        recorded ==
            add_interaction(hist, maxh,
                            Interaction(message, formatted_response, category))
        counted == [stats EXCEPT !.total_queries = @ + 1]
    IN  IF raised
        THEN [history |-> add_interaction(hist, maxh,
                            Interaction(message, error_reply(completion.text).response,
                                        category)),
              session_stats |-> counted, calls |-> 1,
              recorded |-> FALSE,
              prompt |-> prompt,
              result |-> error_reply(completion.text)]
        ELSE [history |-> recorded, session_stats |-> counted,
              calls |-> IF is_local(category) THEN 0 ELSE 1,
              recorded |-> TRUE,
              prompt |-> prompt,
              result |-> [response |-> formatted_response,
                          category |-> category,
                          conversation_length |-> Len(recorded)]]

\* faulty variant of run: conversation_length counts the entries before truncation
run_length_before_truncation(message, hist, maxh, stats, completion) ==
    LET category == classify_query(message, hist)
        prompt == IF is_local(category) THEN <<>>
                  ELSE build_contextual_prompt(message, category, hist)
        raised == ~is_local(category) /\ ~completion.ok
        formatted_response == formatted(category, hist, completion)
        recorded ==
            add_interaction(hist, maxh,
                            Interaction(message, formatted_response, category))
        counted == [stats EXCEPT !.total_queries = @ + 1]
    IN  IF raised
        THEN [history |-> hist, session_stats |-> counted, calls |-> 1,
              recorded |-> FALSE,
              prompt |-> prompt,
              result |-> error_reply(completion.text)]
        ELSE [history |-> recorded, session_stats |-> counted,
              calls |-> IF is_local(category) THEN 0 ELSE 1,
              recorded |-> TRUE,
              prompt |-> prompt,
              result |-> [response |-> formatted_response,
                          category |-> category,
                          conversation_length |-> Len(hist) + 1]]

\* faulty variant of run: a failed provider call is attempted a second time
run_retrying_once(message, hist, maxh, stats, completion) ==
    LET category == classify_query(message, hist)
        prompt == IF is_local(category) THEN <<>>
                  ELSE build_contextual_prompt(message, category, hist)
        raised == ~is_local(category) /\ ~completion.ok
        formatted_response == formatted(category, hist, completion)
        recorded ==
            add_interaction(hist, maxh,
                            Interaction(message, formatted_response, category))
        counted == [stats EXCEPT !.total_queries = @ + 1]
    IN  IF raised
        THEN [history |-> hist, session_stats |-> counted, calls |-> 2,
              recorded |-> FALSE,
              prompt |-> prompt,
              result |-> error_reply(completion.text)]
        ELSE [history |-> recorded, session_stats |-> counted,
              calls |-> IF is_local(category) THEN 0 ELSE 1,
              recorded |-> TRUE,
              prompt |-> prompt,
              result |-> [response |-> formatted_response,
                          category |-> category,
                          conversation_length |-> Len(recorded)]]

\* faulty variant of run: the summary and the prompt already count the current turn
run_seeing_current_turn(message, hist, maxh, stats, completion) ==
    LET category == classify_query(message, hist)
        seen == Append(hist, Interaction(message, <<>>, category))
        prompt == IF is_local(category) THEN <<>>
                  ELSE build_contextual_prompt(message, category, seen)
        raised == ~is_local(category) /\ ~completion.ok
        formatted_response == formatted(category, seen, completion)
        recorded ==
            add_interaction(hist, maxh,
                            Interaction(message, formatted_response, category))
        counted == [stats EXCEPT !.total_queries = @ + 1]
    IN  IF raised
        THEN [history |-> hist, session_stats |-> counted, calls |-> 1,
              recorded |-> FALSE,
              prompt |-> prompt,
              result |-> error_reply(completion.text)]
        ELSE [history |-> recorded, session_stats |-> counted,
              calls |-> IF is_local(category) THEN 0 ELSE 1,
              recorded |-> TRUE,
              prompt |-> prompt,
              result |-> [response |-> formatted_response,
                          category |-> category,
                          conversation_length |-> Len(recorded)]]

\* run: the state it leaves (memory.history, session_stats), the number of
\* provider calls it made, the prompt it gave the provider (empty when the
\* provider is not called) and the dict it returns.  An exception raised in
\* the try block (the provider call is the only step that can raise) skips
\* the rest of the block.
run(message, hist, maxh, stats, completion) ==
    LET category == classify_query(message, hist)
        prompt == IF is_local(category) THEN <<>>
                  ELSE build_contextual_prompt(message, category, hist)
        raised == ~is_local(category) /\ ~completion.ok
        formatted_response == formatted(category, hist, completion)
        recorded ==
            add_interaction(hist, maxh,
                            Interaction(message, formatted_response, category))
        counted == [stats EXCEPT !.total_queries = @ + 1]
    IN  IF raised
        THEN [history |-> hist, session_stats |-> counted, calls |-> 1,
              recorded |-> FALSE,
              prompt |-> prompt,
              result |-> error_reply(completion.text)]
        ELSE [history |-> recorded, session_stats |-> counted,
              calls |-> IF is_local(category) THEN 0 ELSE 1,
              recorded |-> TRUE,
              prompt |-> prompt,
              result |-> [response |-> formatted_response,
                          category |-> category,
                          conversation_length |-> Len(recorded)]]

(***************************************************************************)
(* QuantumTutorWebApp                                                      *)
(***************************************************************************)
FreshWebStats == [total_queries |-> 0, topics_covered |-> {}]

\* QuantumTutorWebApp.get_stats
get_stats(stats) ==
    [total_queries |-> stats.total_queries,
     topics_covered |-> Cardinality(stats.topics_covered)]

\* result.get(key, default)
dict_get(d, key, default) == IF key \in DOMAIN d THEN d[key] ELSE default

NoResult == [none |-> TRUE]

\* The record of the last operation: the route or method, the message it was
\* given, whether agent.run was entered, the provider's answer, the value run
\* returned, the reply of the route, and memory.history as run found it.
Op(name, message, ran, completion, result, http, before) ==
    [name |-> name, message |-> message, ran |-> ran,
     completion |-> completion, result |-> result, http |-> http,
     before |-> before]

Failure(error) == [success |-> FALSE, error |-> error]

\* the threads of the server that may each serve one /chat request
Threads == {1, 2}

\* a thread that serves no request
Idle == [pc |-> "idle"]

NoThreads == [t \in Threads |-> Idle]

Init ==
    /\ agent \in BOOLEAN
    /\ history = <<>>
    /\ max_history = DefaultMaxHistory
    /\ session_stats = [total_queries |-> 0]
    /\ web_stats = FreshWebStats
    /\ calls = 0
    /\ threads = NoThreads
    /\ added = <<>>
    /\ op = Op("init", <<>>, FALSE, NoCompletion, NoResult, NoResult, <<>>)

\* POST /chat refused before the agent runs
ChatRejected(req) ==
    /\ \/ ~agent
       \/ ~req.is_dict
       \/ strip(req.message) = <<>>
    /\ op' = Op("chat", req.message, FALSE, NoCompletion, NoResult,
                IF ~agent THEN Failure(s_not_initialized)
                ELSE IF ~req.is_dict THEN Failure(s_no_get)
                ELSE Failure(s_empty_message),
                <<>>)
    /\ UNCHANGED <<agent, history, max_history, session_stats, web_stats,
                   calls, added, threads>>

\* POST /chat that reaches agent.run(user_query)
ChatRun(req, completion) ==
    LET user_query == strip(req.message)
        r == run(user_query, history, max_history, session_stats, completion)
        stats == [total_queries |-> web_stats.total_queries + 1,
                  topics_covered |-> web_stats.topics_covered
                        \cup {dict_get(r.result, "category", s_general)}]
    IN  /\ agent
        /\ req.is_dict
        /\ user_query # <<>>
        /\ session_stats' = r.session_stats
        /\ calls' = calls + r.calls
        /\ history' = r.history
        /\ added' = IF r.recorded
                    THEN Append(added, Interaction(user_query, r.result.response,
                                                   r.result.category))
                    ELSE added
        /\ web_stats' = stats
        /\ op' = Op("chat", user_query, TRUE, create(r.prompt, completion),
                    r.result,
                    [success |-> TRUE,
                     response |-> r.result.response,
                     metadata |->
                        [category |-> dict_get(r.result, "category", s_general),
                         conversation_length |->
                            dict_get(r.result, "conversation_length", 0)],
                     stats |-> get_stats(stats)],
                    history)
        /\ UNCHANGED <<agent, max_history, threads>>

Chat ==
    \E req \in Requests :
        \/ ChatRejected(req)
        \/ /\ agent /\ req.is_dict /\ strip(req.message) # <<>>
           /\ session_stats.total_queries < MaxQueries
           /\ \E completion \in
                    (IF asks_provider(strip(req.message), history)
                     THEN Completions ELSE {NoCompletion}) :
                ChatRun(req, completion)

\* faulty variant of Clear: the agent's session_stats are replaced as well
ClearResettingAgentStats ==
    /\ IF agent
       THEN /\ history' = <<>>
            /\ max_history' = DefaultMaxHistory
            /\ added' = <<>>
       ELSE UNCHANGED <<history, max_history, added>>
    /\ session_stats' = [total_queries |-> 0]
    /\ web_stats' = FreshWebStats
    /\ op' = Op("clear", <<>>, FALSE, NoCompletion, NoResult, [success |-> TRUE],
                <<>>)
    /\ UNCHANGED <<agent, calls, threads>>

\* POST /clear: agent.reset_conversation(), then fresh web statistics
Clear ==
    /\ IF agent
       THEN /\ history' = <<>>
            /\ max_history' = DefaultMaxHistory
            /\ added' = <<>>
       ELSE UNCHANGED <<history, max_history, added, threads>>
    /\ web_stats' = FreshWebStats
    /\ op' = Op("clear", <<>>, FALSE, NoCompletion, NoResult, [success |-> TRUE],
                <<>>)
    /\ UNCHANGED <<agent, session_stats, calls, threads>>

\* faulty variant of Progress: the route answers through agent.run, which records the
\* request as a turn
ProgressThroughRun ==
    LET r == run(s_progress, history, max_history, session_stats, NoCompletion)
    IN  /\ agent
        /\ session_stats' = r.session_stats
        /\ history' = r.history
        /\ added' = Append(added, r.history[Len(r.history)])
        /\ op' = Op("progress", <<>>, FALSE, NoCompletion, NoResult,
                    [success |-> TRUE, summary |-> r.result.response], <<>>)
        /\ UNCHANGED <<agent, max_history, web_stats, calls, threads>>

\* GET /progress: agent.generate_session_summary()
Progress ==
    /\ op' = Op("progress", <<>>, FALSE, NoCompletion, NoResult,
                IF agent
                THEN [success |-> TRUE,
                      summary |-> generate_session_summary(history)]
                ELSE Failure(s_agent_not_initialized),
                <<>>)
    /\ UNCHANGED <<agent, history, max_history, session_stats, web_stats,
                   calls, added, threads>>

\* GET /stats
Stats ==
    /\ op' = Op("stats", <<>>, FALSE, NoCompletion, NoResult, get_stats(web_stats),
                <<>>)
    /\ UNCHANGED <<agent, history, max_history, session_stats, web_stats,
                   calls, added, threads>>

Next == Chat \/ Clear \/ Progress \/ Stats

Spec == Init /\ [][Next]_vars

(***************************************************************************)
(* SpecLong: one session driven past the capacity of its memory.  The      *)
(* first MaxQueries messages are chosen freely among two, the later ones   *)
(* are all the follow-up message; the provider may fail at any turn.       *)
(***************************************************************************)
LongMessages ==
    IF session_stats.total_queries < MaxQueries
    THEN {m_math, m_show_code}
    ELSE {m_show_code}

ChatLong ==
    \E m \in LongMessages :
        /\ session_stats.total_queries < DefaultMaxHistory + MaxOver
        /\ \E completion \in
                (IF asks_provider(strip(m), history)
                 THEN Completions ELSE {NoCompletion}) :
             ChatRun([is_dict |-> TRUE, has_message |-> TRUE, message |-> m],
                     completion)

InitLong == Init /\ agent

NextLong == ChatLong \/ Progress

SpecLong == InitLong /\ [][NextLong]_vars

(***************************************************************************)
(* SpecMem: a ConversationMemory of any small capacity, used directly.     *)
(***************************************************************************)
MemInteractions ==
    {Interaction(m, c_qubit, c) : m \in {m_help, m_math},
                                  c \in {s_help, s_general}}

\* ConversationMemory(max_history)
InitMem ==
    /\ agent = FALSE
    /\ history = <<>>
    /\ max_history \in 0..MaxCap
    /\ session_stats = [total_queries |-> 0]
    /\ web_stats = FreshWebStats
    /\ calls = 0
    /\ threads = NoThreads
    /\ added = <<>>
    /\ op = Op("init", <<>>, FALSE, NoCompletion, NoResult, NoResult, <<>>)

\* memory.add_interaction(user_message, bot_response, category)
AddInteraction ==
    \E i \in MemInteractions :
        /\ Len(added) < MaxAdds
        /\ history' = add_interaction(history, max_history, i)
        /\ added' = Append(added, i)
        /\ op' = Op("add_interaction", i.user_message, FALSE, NoCompletion,
                    NoResult, NoResult, history)
        /\ UNCHANGED <<agent, max_history, session_stats, web_stats, calls, threads>>

NextMem == AddInteraction

SpecMem == InitMem /\ [][NextMem]_vars

(***************************************************************************)
(* SpecClassify: classify_query applied once to a message, over a history  *)
(* that is empty or ends with a given category.                            *)
(***************************************************************************)
\* str.upper() on the letters of s
upper(s) ==
    [i \in 1..Len(s) |->
        IF s[i] \in Range(LOWER)
        THEN UPPER[CHOOSE k \in DOMAIN LOWER : LOWER[k] = s[i]]
        ELSE s[i]]

Keywords == UNION {Range(rules[r].keywords) : r \in DOMAIN rules}
Fragments == Keywords \cup Range(indicators) \cup {m_hello}

\* a fragment, two fragments separated by a space, or a fragment in capitals
ClassifyMessages ==
    Fragments
    \cup {a \o <<" ">> \o b : a \in Fragments, b \in Fragments}
    \cup {upper(a) : a \in Fragments}

ClassifyHistories ==
    {<<>>}
    \cup {<<Interaction(m_hello, c_qubit, c)>> :
            c \in {s_general, s_help, s_followup_ \o s_progress}}

InitClassify ==
    /\ agent = TRUE
    /\ history \in ClassifyHistories
    /\ max_history = DefaultMaxHistory
    /\ session_stats = [total_queries |-> 0]
    /\ web_stats = FreshWebStats
    /\ calls = 0
    /\ threads = NoThreads
    /\ added = history
    /\ \E m \in ClassifyMessages :
            op = Op("input", m, FALSE, NoCompletion, NoResult, NoResult, <<>>)

\* agent.classify_query(message)
Classify ==
    /\ op.name = "input"
    /\ op' = Op("classify", op.message, FALSE, NoCompletion,
                [category |-> classify_query(op.message, history)], NoResult,
                history)
    /\ UNCHANGED <<agent, history, max_history, session_stats, web_stats,
                   calls, added, threads>>

NextClassify == Classify

SpecClassify == InitClassify /\ [][NextClassify]_vars

(***************************************************************************)
(* SpecContext: get_context_summary applied once to a memory whose history *)
(* holds up to MaxCtx interactions, with user messages of 5, 50 and 51     *)
(* characters.                                                             *)
(***************************************************************************)
m_fifty ==
    <<"g","i","v","e"," ","m","e"," ","a"," ","f","u","n"," ","f","a","c","t",
      " ","a","b","o","u","t"," ","s","u","p","e","r","p","o","s","i","t","i",
      "o","n"," ","a","n","d"," ","q","u","b","i","t","s","!">>
m_fifty_one ==
    <<"w","h","a","t"," ","i","s"," ","t","h","e"," ","d","i","f","f","e","r",
      "e","n","c","e"," ","b","e","t","w","e","e","n"," ","a"," ","q","u","b",
      "i","t"," ","a","n","d"," ","a"," ","b","i","t"," ","o","k">>

ContextInteractions ==
    {Interaction(m_hello, c_qubit, s_general),
     Interaction(m_fifty, c_qubit, rules[7].category),
     Interaction(m_fifty_one, c_qubit, s_followup_ \o rules[7].category)}

\* the lists of at most n elements of S
RECURSIVE ListsUpTo(_, _)
ListsUpTo(S, n) ==
    IF n = 0 THEN {<<>>}
    ELSE LET shorter == ListsUpTo(S, n - 1)
         IN  shorter \cup {Append(l, x) : l \in shorter, x \in S}

InitContext ==
    /\ agent = TRUE
    /\ history \in ListsUpTo(ContextInteractions, MaxCtx)
    /\ max_history = DefaultMaxHistory
    /\ session_stats = [total_queries |-> 0]
    /\ web_stats = FreshWebStats
    /\ calls = 0
    /\ threads = NoThreads
    /\ added = history
    /\ op = Op("input", <<>>, FALSE, NoCompletion, NoResult, NoResult, <<>>)

\* memory.get_context_summary()
ContextSummary ==
    /\ op.name = "input"
    /\ op' = Op("get_context_summary", <<>>, FALSE, NoCompletion,
                [summary |-> get_context_summary(history)], NoResult, history)
    /\ UNCHANGED <<agent, history, max_history, session_stats, web_stats,
                   calls, added, threads>>

NextContext == ContextSummary

SpecContext == InitContext /\ [][NextContext]_vars

(***************************************************************************)
(* SpecFormat: format_response applied to a text, then again to its own    *)
(* result, up to MaxApply times.                                           *)
(***************************************************************************)
t_quantumly ==
    <<"q","u","a","n","t","u","m","l","y">>
t_circuits ==
    <<"c","i","r","c","u","i","t","s">>
t__qubit ==
    <<"_","q","u","b","i","t">>

Terms == {replacements[k].term : k \in DOMAIN replacements}

\* a term, a term in capitals, a decorated term, a term inside a longer word,
\* or a text without any term
FormatFragments ==
    Terms
    \cup {upper(t) : t \in Terms}
    \cup {replacements[k].replacement : k \in DOMAIN replacements}
    \cup {t_quantumly, t_circuits, t__qubit, m_hello}

\* nothing, a fragment, two fragments separated by a space, or two terms run
\* together
FormatTexts ==
    {<<>>}
    \cup FormatFragments
    \cup {a \o <<" ">> \o b : a \in FormatFragments, b \in FormatFragments}
    \cup {a \o b : a \in Terms, b \in Terms}

InitFormat ==
    /\ agent = TRUE
    /\ history = <<>>
    /\ max_history = DefaultMaxHistory
    /\ session_stats = [total_queries |-> 0]
    /\ web_stats = FreshWebStats
    /\ calls = 0
    /\ threads = NoThreads
    /\ added = <<>>
    /\ \E text \in FormatTexts :
            op = Op("input", text, FALSE, NoCompletion, [outputs |-> <<>>],
                    NoResult, <<>>)

\* agent.format_response(text), text being the input or the previous result
Format ==
    LET outputs == op.result.outputs
        text == IF outputs = <<>> THEN op.message ELSE outputs[Len(outputs)]
    IN  /\ op.name \in {"input", "format_response"}
        /\ Len(outputs) < MaxApply
        /\ op' = Op("format_response", op.message, FALSE, NoCompletion,
                    [outputs |-> Append(outputs, format_response(text))],
                    NoResult, <<>>)
        /\ UNCHANGED <<agent, history, max_history, session_stats, web_stats,
                       calls, added, threads>>

NextFormat == Format

SpecFormat == InitFormat /\ [][NextFormat]_vars

(***************************************************************************)
(* SpecConc: two /chat requests served by two threads of the server on the *)
(* one agent, after PriorTurns turns served one at a time.  A step is one  *)
(* read or one write of shared state by chat() or by run(); the steps of   *)
(* the two threads interleave freely, since nothing in the code orders     *)
(* them.  The prompt a thread builds is not kept: the provider's answer    *)
(* does not depend on it.                                                  *)
(***************************************************************************)
\* the message of the request each thread serves
ConcMessage == <<m_math, m_show_code>>

\* the turns already recorded: none, one less than the capacity, the capacity
PriorTurns == {0, DefaultMaxHistory - 1, DefaultMaxHistory}

PriorInteraction == Interaction(m_hello, format_response(c_qubit), s_general)

\* the local values of a thread that has entered chat() with this message
Request(message) ==
    [pc |-> "read_total", message |-> message, total |-> 0, category |-> <<>>,
     completion |-> NoCompletion, response |-> <<>>, sliced |-> <<>>,
     result |-> NoResult, web_total |-> 0, http |-> NoResult]

InitConc ==
    /\ agent = TRUE
    /\ \E n \in PriorTurns :
            /\ history = [i \in 1..n |-> PriorInteraction]
            /\ session_stats = [total_queries |-> n]
            /\ web_stats = [total_queries |-> n,
                            topics_covered |-> IF n = 0 THEN {} ELSE {s_general}]
            /\ calls = n
    /\ max_history = DefaultMaxHistory
    /\ added = history
    /\ op = Op("init", <<>>, FALSE, NoCompletion, NoResult, NoResult, history)
    /\ threads = NoThreads

\* chat(): the message is trimmed and is not empty
ChatArrive(t) ==
    /\ threads[t].pc = "idle"
    /\ strip(ConcMessage[t]) # <<>>
    /\ threads' = [threads EXCEPT ![t] = Request(strip(ConcMessage[t]))]
    /\ UNCHANGED <<agent, history, max_history, session_stats, web_stats,
                   calls, added, op>>

\* run: self.session_stats['total_queries'] += 1, the read
RunReadTotal(t) ==
    /\ threads[t].pc = "read_total"
    /\ threads' = [threads EXCEPT ![t].total = session_stats.total_queries,
                                  ![t].pc = "write_total"]
    /\ UNCHANGED <<agent, history, max_history, session_stats, web_stats,
                   calls, added, op>>

\* run: self.session_stats['total_queries'] += 1, the write
RunWriteTotal(t) ==
    /\ threads[t].pc = "write_total"
    /\ session_stats' = [session_stats EXCEPT
                            !.total_queries = threads[t].total + 1]
    /\ threads' = [threads EXCEPT ![t].pc = "classify"]
    /\ UNCHANGED <<agent, history, max_history, web_stats, calls, added, op>>

\* run: category = self.classify_query(message)
RunClassify(t) ==
    /\ threads[t].pc = "classify"
    /\ threads' = [threads EXCEPT
                    ![t].category = classify_query(threads[t].message, history),
                    ![t].pc = "respond"]
    /\ UNCHANGED <<agent, history, max_history, session_stats, web_stats,
                   calls, added, op>>

\* run: the branch on the category up to format_response; an exception of
\* the provider leads to the except branch and out of run
RunRespond(t) ==
    LET category == threads[t].category
    IN  /\ threads[t].pc = "respond"
        /\ \E completion \in
                (IF is_local(category) THEN {NoCompletion} ELSE Completions) :
              /\ calls' = calls + (IF is_local(category) THEN 0 ELSE 1)
              /\ threads' =
                    IF ~is_local(category) /\ ~completion.ok
                    THEN [threads EXCEPT
                            ![t].completion = completion,
                            ![t].result = error_reply(completion.text),
                            ![t].pc = "web_read"]
                    ELSE [threads EXCEPT
                            ![t].completion = completion,
                            ![t].response =
                                formatted(category, history, completion),
                            ![t].pc = "append"]
        /\ UNCHANGED <<agent, history, max_history, session_stats, web_stats,
                       added, op>>

\* add_interaction: self.history.append(interaction)
RunAppend(t) ==
    LET interaction == Interaction(threads[t].message, threads[t].response,
                                   threads[t].category)
    IN  /\ threads[t].pc = "append"
        /\ history' = Append(history, interaction)
        /\ added' = Append(added, interaction)
        /\ threads' = [threads EXCEPT ![t].pc = "check"]
        /\ UNCHANGED <<agent, max_history, session_stats, web_stats, calls, op>>

\* add_interaction: if len(self.history) > self.max_history
RunCheck(t) ==
    /\ threads[t].pc = "check"
    /\ threads' = [threads EXCEPT
                    ![t].pc = IF Len(history) > max_history
                              THEN "slice" ELSE "return"]
    /\ UNCHANGED <<agent, history, max_history, session_stats, web_stats,
                   calls, added, op>>

\* add_interaction: the value of self.history[-self.max_history:]
RunSlice(t) ==
    /\ threads[t].pc = "slice"
    /\ threads' = [threads EXCEPT ![t].sliced = last_n(history, max_history),
                                  ![t].pc = "assign"]
    /\ UNCHANGED <<agent, history, max_history, session_stats, web_stats,
                   calls, added, op>>

\* add_interaction: self.history = that value
RunAssign(t) ==
    /\ threads[t].pc = "assign"
    /\ history' = threads[t].sliced
    /\ threads' = [threads EXCEPT ![t].pc = "return"]
    /\ UNCHANGED <<agent, max_history, session_stats, web_stats, calls, added,
                   op>>

\* run: the dict returned, with len(self.memory.history) read now
RunReturn(t) ==
    /\ threads[t].pc = "return"
    /\ threads' = [threads EXCEPT
                    ![t].result = [response |-> threads[t].response,
                                   category |-> threads[t].category,
                                   conversation_length |-> Len(history)],
                    ![t].pc = "web_read"]
    /\ UNCHANGED <<agent, history, max_history, session_stats, web_stats,
                   calls, added, op>>

\* chat(): self.session_stats['total_queries'] += 1, the read
WebReadTotal(t) ==
    /\ threads[t].pc = "web_read"
    /\ threads' = [threads EXCEPT ![t].web_total = web_stats.total_queries,
                                  ![t].pc = "web_write"]
    /\ UNCHANGED <<agent, history, max_history, session_stats, web_stats,
                   calls, added, op>>

\* chat(): self.session_stats['total_queries'] += 1, the write
WebWriteTotal(t) ==
    /\ threads[t].pc = "web_write"
    /\ web_stats' = [web_stats EXCEPT
                        !.total_queries = threads[t].web_total + 1]
    /\ threads' = [threads EXCEPT ![t].pc = "web_topic"]
    /\ UNCHANGED <<agent, history, max_history, session_stats, calls, added,
                   op>>

\* chat(): self.session_stats['topics_covered'].add(...)
WebAddTopic(t) ==
    /\ threads[t].pc = "web_topic"
    /\ web_stats' = [web_stats EXCEPT
                        !.topics_covered =
                            @ \cup {dict_get(threads[t].result, "category",
                                             s_general)}]
    /\ threads' = [threads EXCEPT ![t].pc = "reply"]
    /\ UNCHANGED <<agent, history, max_history, session_stats, calls, added,
                   op>>

\* chat(): the reply, with get_stats() read now
WebReply(t) ==
    LET result == threads[t].result
    IN  /\ threads[t].pc = "reply"
        /\ threads' = [threads EXCEPT
                        ![t].http =
                            [success |-> TRUE,
                             response |-> result.response,
                             metadata |->
                                [category |->
                                    dict_get(result, "category", s_general),
                                 conversation_length |->
                                    dict_get(result, "conversation_length", 0)],
                             stats |-> get_stats(web_stats)],
                        ![t].pc = "done"]
        /\ UNCHANGED <<agent, history, max_history, session_stats, web_stats,
                       calls, added, op>>

NextConc ==
    \E t \in Threads :
        \/ ChatArrive(t)
        \/ RunReadTotal(t)
        \/ RunWriteTotal(t)
        \/ RunClassify(t)
        \/ RunRespond(t)
        \/ RunAppend(t)
        \/ RunCheck(t)
        \/ RunSlice(t)
        \/ RunAssign(t)
        \/ RunReturn(t)
        \/ WebReadTotal(t)
        \/ WebWriteTotal(t)
        \/ WebAddTopic(t)
        \/ WebReply(t)

SpecConc == InitConc /\ [][NextConc]_vars

(***************************************************************************)
(* Properties.                                                             *)
(***************************************************************************)
\* the last operation was a run whose provider call failed
RunFailed == op.name = "chat" /\ op.ran /\ op.completion.asked /\ ~op.completion.ok

\* the last operation was a run that completed its try block
RunSucceeded == op.name = "chat" /\ op.ran /\ ~(op.completion.asked /\ ~op.completion.ok)

\* the last entry of a non-empty list
Last(list) == list[Len(list)]

\* the most recent min(Len(log), cap) entries of log, in order
MostRecent(log, cap) ==
    LET n == IF Len(log) < cap THEN Len(log) ELSE cap
    IN  SubSeq(log, Len(log) - n + 1, Len(log))

\* C1: after each add_interaction, for any capacity, len(history) <=
\* max_history and history is the most recent min(n, max_history) of the n
\* interactions added, oldest first.
C1_BoundedHistory ==
    /\ Len(history) <= max_history
    /\ history = MostRecent(added, max_history)

\* The same for the capacities of at least 1 (not C1: C1 is about any capacity).
BoundedHistoryPositiveCapacity ==
    max_history >= 1 => C1_BoundedHistory

\* C2: when the provider call fails, run returns a reply (the route answers
\* with success), its category is "error", and its response is non-empty and
\* contains the text of the error.
C2_GracefulDegradation ==
    RunFailed =>
        /\ op.result.category = s_error
        /\ op.result.response # <<>>
        /\ contains(op.completion.text, op.result.response)
        /\ op.http.success
        /\ op.http.response = op.result.response

C2_Witness ==
    /\ RunFailed
    /\ op.result.category = s_error
    /\ op.result.response = s_oops \o e_timeout

C5_ResetDiscardsAll ==
    (op.name = "clear" /\ agent) =>
        /\ history = <<>>
        /\ session_stats.total_queries = 0

\* needle occurs in s when the case of the letters of s is ignored
OccursIgnoringCase(needle, s) ==
    \E i \in 1..(Len(s) - Len(needle) + 1) :
        \A k \in 1..Len(needle) : lower_char(s[i + k - 1]) = needle[k]

\* the message contains a follow-up indicator
HasIndicator(message) ==
    \E i \in DOMAIN indicators : OccursIgnoringCase(indicators[i], message)

\* the message contains a trigger keyword of the category
Triggers(category, message) ==
    \E r \in DOMAIN rules :
        /\ rules[r].category = category
        /\ \E k \in DOMAIN rules[r].keywords :
                OccursIgnoringCase(rules[r].keywords[k], message)

\* C6: for a message that contains a follow-up indicator, when history is not
\* empty, classify_query returns "followup_" + the category of the most
\* recent interaction, whatever keywords the message also contains.
C6_FollowUpPriority ==
    (op.name = "classify" /\ HasIndicator(op.message) /\ history # <<>>) =>
        op.result.category = s_followup_ \o Last(history).category

\* "help how" after a turn of category help
C6_Witness ==
    /\ op.name = "classify"
    /\ history # <<>>
    /\ Last(history).category = s_help
    /\ op.message = s_help \o <<" ">> \o indicators[7]
    /\ Triggers(s_help, op.message)
    /\ op.result.category = s_followup_ \o s_help

\* the categories of the rule table, in the declared order
TableOrder == <<
        <<"c","o","d","e">>,
        <<"r","e","s","e","a","r","c","h">>,
        <<"c","o","m","p","a","r","i","s","o","n">>,
        <<"m","a","t","h">>,
        <<"a","p","p","l","i","c","a","t","i","o","n">>,
        <<"h","i","s","t","o","r","y">>,
        <<"f","u","n">>,
        <<"q","u","i","z">>,
        <<"h","e","l","p">>,
        <<"p","r","o","g","r","e","s","s">>
    >>

\* the first category of the table order with a trigger in the message, or
\* "general"
FirstTriggered(message) ==
    LET hit == {i \in DOMAIN TableOrder : Triggers(TableOrder[i], message)}
    IN  IF hit = {} THEN s_general
        ELSE TableOrder[CHOOSE i \in hit : \A j \in hit : i <= j]

\* category starts with "followup_"
IsFollowUp(category) ==
    /\ Len(category) >= Len(s_followup_)
    /\ SubSeq(category, 1, Len(s_followup_)) = s_followup_

\* C7: when history is empty or the message has no follow-up indicator,
\* classify_query returns the first category of the table order that has a
\* keyword in the message, ignoring case, and "general" when none has; on an
\* empty history the category is never a follow-up category.
C7_KeywordTieBreak ==
    /\ (op.name = "classify" /\ (history = <<>> \/ ~HasIndicator(op.message))) =>
            op.result.category = FirstTriggered(op.message)
    /\ (op.name = "classify" /\ history = <<>>) =>
            ~IsFollowUp(op.result.category)

\* "formula compare": math and comparison both trigger, comparison is declared
\* first
C7_Witness ==
    /\ op.name = "classify"
    /\ op.message = rules[4].keywords[1] \o <<" ">> \o rules[3].keywords[3]
    /\ Triggers(TableOrder[3], op.message)
    /\ Triggers(TableOrder[4], op.message)
    /\ op.result.category = TableOrder[3]

\* C8: a run whose message is classified as "help" or "progress" makes no
\* provider call (the call counter is unchanged), returns that category and
\* records the turn in history.
C8_LocalBranchesSkipProvider ==
    [][(/\ op'.name = "chat"
        /\ op'.ran
        /\ classify_query(op'.message, history) \in {s_help, s_progress})
        => /\ calls' = calls
           /\ op'.result.category = classify_query(op'.message, history)
           /\ history' = MostRecent(
                            Append(history,
                                   Interaction(op'.message, op'.result.response,
                                               op'.result.category)),
                            max_history)]_vars

\* a progress message answered after a provider call was made earlier
C8_Witness ==
    /\ RunSucceeded
    /\ op.result.category = s_progress
    /\ calls = 1
    /\ Len(history) = 2
    /\ Last(history).category = s_progress
    /\ Last(history).user_message = op.message

\* C9: summary() (GET /progress) changes neither history nor total_queries
\* and records no turn, and the response of the "progress" branch of run is
\* the text summary() returns in the state run started from.
C9_SummaryReadOnly ==
    /\ [][op'.name = "progress" =>
            UNCHANGED <<history, session_stats, web_stats, calls, added>>]_vars
    /\ []((RunSucceeded /\ op.result.category = s_progress) =>
            op.result.response = generate_session_summary(op.before))

\* summary() called with two turns recorded
C9_Witness ==
    /\ op.name = "progress"
    /\ agent
    /\ Len(history) = 2
    /\ session_stats.total_queries = 2
    /\ op.http.summary = generate_session_summary(history)

\* the categories of h in the order each is first seen
RECURSIVE FirstSeen(_)
FirstSeen(h) ==
    IF h = <<>> THEN <<>>
    ELSE LET earlier == SubSeq(h, 1, Len(h) - 1)
         IN  IF \E i \in DOMAIN earlier : earlier[i].category = Last(h).category
             THEN FirstSeen(earlier)
             ELSE Append(FirstSeen(earlier), Last(h).category)

\* the number of interactions of h with the category
CountOf(h, category) == Cardinality({i \in DOMAIN h : h[i].category = category})

\* the category with the highest count, the one seen first among equals
MostDiscussed(h) ==
    LET seen == FirstSeen(h)
        i == CHOOSE i \in DOMAIN seen :
                \A j \in DOMAIN seen :
                    \/ CountOf(h, seen[j]) < CountOf(h, seen[i])
                    \/ (CountOf(h, seen[j]) = CountOf(h, seen[i]) /\ i <= j)
    IN  seen[i]

\* C10: with a non-empty history summary() reports the number of recorded
\* interactions, the distinct categories in first-seen order and, as most
\* discussed, the category with the highest count, the first seen on a tie;
\* with an empty history it returns the not-started message.
C10_SummaryContent ==
    (op.name = "progress" /\ agent) =>
        op.http.summary =
            IF history = <<>> THEN s_welcome
            ELSE s_summary_total \o str(Len(history))
                 \o s_summary_topics \o join(s_comma, FirstSeen(history))
                 \o s_summary_most \o MostDiscussed(history)

\* summary() after turns of categories x, x, y
C10_Witness ==
    /\ op.name = "progress"
    /\ agent
    /\ Len(history) = 3
    /\ history[1].category = history[2].category
    /\ history[3].category # history[1].category
    /\ op.http.summary =
            s_summary_total \o <<"3">>
            \o s_summary_topics \o history[1].category \o s_comma
            \o history[3].category
            \o s_summary_most \o history[1].category

\* the rendering of one interaction in the context summary: its category in
\* parentheses, a colon, the first 50 characters of its user message, an
\* ellipsis
Digest(i) ==
    <<"(">> \o i.category \o <<")", ":", " ">>
    \o [k \in 1..(IF Len(i.user_message) < 50 THEN Len(i.user_message) ELSE 50)
            |-> i.user_message[k]]
    \o s_ellipsis

\* C11: get_context_summary returns the start-of-conversation sentence on an
\* empty history; otherwise it renders exactly the last min(3, len(history))
\* interactions, oldest first, each as its category and the first 50
\* characters of its user message, and nothing of older interactions.
C11_ContextSummary ==
    op.name = "get_context_summary" =>
        LET n == Len(history)
        IN  op.result.summary =
                IF n = 0 THEN s_start
                ELSE IF n = 1 THEN s_recent \o Digest(history[1])
                ELSE IF n = 2
                THEN s_recent \o Digest(history[1]) \o s_semicolon
                     \o Digest(history[2])
                ELSE s_recent \o Digest(history[n - 2]) \o s_semicolon
                     \o Digest(history[n - 1]) \o s_semicolon
                     \o Digest(history[n])

\* four interactions, the oldest left out and the 51-character message of the
\* newest cut after its 50th character
C11_Witness ==
    /\ op.name = "get_context_summary"
    /\ Len(history) = 4
    /\ history[1].user_message = m_fifty_one
    /\ history[2].user_message = m_fifty
    /\ history[3].user_message = m_hello
    /\ history[4].user_message = m_fifty_one
    /\ op.result.summary =
            s_recent \o <<"(">> \o history[2].category \o <<")", ":", " ">>
            \o m_fifty \o s_ellipsis \o s_semicolon
            \o <<"(">> \o history[3].category \o <<")", ":", " ">>
            \o m_hello \o s_ellipsis \o s_semicolon
            \o <<"(">> \o history[4].category \o <<")", ":", " ">>
            \o SubSeq(m_fifty_one, 1, 50) \o s_ellipsis

\* C12: each run calls the completion provider at most once, exactly once
\* when the category is neither "help" nor "progress", also when the call
\* fails; no other operation calls the provider, so a failed completion is
\* never attempted again.
C12_NoRetries ==
    [][/\ (op'.name = "chat" /\ op'.ran) =>
            calls' = calls +
                (IF classify_query(op'.message, history) \in {s_help, s_progress}
                 THEN 0 ELSE 1)
       /\ ~(op'.name = "chat" /\ op'.ran) => calls' = calls]_vars

\* the statistics are read after the only run of the session failed: one
\* provider call was made
C12_Witness ==
    /\ op.name = "stats"
    /\ session_stats.total_queries = 1
    /\ web_stats.total_queries = 1
    /\ history = <<>>
    /\ calls = 1

\* C13: every run adds exactly 1 to the agent's total_queries, whether the
\* provider call succeeds or fails; a reset starts the count again at 0; no
\* other operation changes it.  So total_queries is the number of runs since
\* the session started or was last reset.
C13_TotalQueriesCountsRuns ==
    [][/\ (op'.name = "chat" /\ op'.ran) =>
            session_stats'.total_queries = session_stats.total_queries + 1
       /\ (op'.name = "clear" /\ agent) => session_stats'.total_queries = 0
       /\ (~(op'.name = "chat" /\ op'.ran) /\ ~(op'.name = "clear" /\ agent)) =>
            UNCHANGED session_stats]_vars

\* every code point of s is whitespace (s may be empty)
AllWhitespace(s) == \A k \in DOMAIN s : s[k] \in WHITESPACE

\* C14: a /chat request whose message is empty or only whitespace is
\* answered with an error reply, does not reach run, and leaves history, the
\* agent's total_queries and the statistics of the web layer unchanged.
C14_EmptyInputRejected ==
    [][(op'.name = "chat" /\ AllWhitespace(op'.message)) =>
            /\ ~op'.ran
            /\ ~op'.http.success
            /\ op'.http.error # <<>>
            /\ agent => op'.http.error \in {s_empty_message, s_no_get}
            /\ UNCHANGED <<history, session_stats, web_stats, calls, added>>]_vars

\* a whitespace-only message refused after one turn was recorded
C14_Witness ==
    /\ op.name = "chat"
    /\ agent
    /\ op.message = m_blank
    /\ ~op.ran
    /\ op.http = Failure(s_empty_message)
    /\ Len(history) = 1
    /\ session_stats.total_queries = 1
    /\ web_stats.total_queries = 1

\* the term occurs in the text as a whole word, in any case of its letters
OccursAsWord(term, text) ==
    \E i \in 1..(Len(text) - Len(term) + 1) :
        /\ \A k \in 1..Len(term) : lower_char(text[i + k - 1]) = term[k]
        /\ i > 1 => text[i - 1] \notin WordChars
        /\ i + Len(term) <= Len(text) => text[i + Len(term)] \notin WordChars

\* one of the five terms occurs in the text as a whole word
HasTerm(text) ==
    \E k \in DOMAIN replacements : OccursAsWord(replacements[k].term, text)

\* C15: format_response is not idempotent: a text with one of the five
\* terms as a whole word is decorated again by a second application, so
\* format(format(text)) differs from (is longer than) format(text); a text
\* without any of the terms is returned unchanged.
C15_FormatNotIdempotent ==
    op.name = "format_response" =>
        LET outputs == op.result.outputs
        IN  /\ ~HasTerm(op.message) => outputs[1] = op.message
            /\ (HasTerm(op.message) /\ Len(outputs) >= 2) =>
                    /\ outputs[2] # outputs[1]
                    /\ Len(outputs[2]) > Len(outputs[1])

\* "quantum" becomes "Quantum" and its marker, then "Quantum" and two markers
C15_Witness ==
    /\ op.name = "format_response"
    /\ op.message = replacements[1].term
    /\ Len(op.result.outputs) = 2
    /\ op.result.outputs[1] = replacements[1].replacement
    /\ op.result.outputs[2] =
            replacements[1].replacement \o <<" ", "U+269B", "U+FE0F">>

\* every request in flight has been answered
AllDone == \A t \in Threads : threads[t].pc = "done"

\* the provider call of every request succeeded
AllSucceeded == \A t \in Threads : threads[t].completion.ok

\* C16: when the steps of two runs on the same agent interleave and both
\* provider calls succeed, then once both have finished both interactions
\* are in history (the capacity leaves room for both), no
\* conversation_length returned is greater than max_history, and
\* total_queries has grown by exactly 2 (op.before is the history the two
\* requests found, one entry per earlier turn).
C16_InterleavedRunsSerializable ==
    (AllDone /\ AllSucceeded) =>
        /\ \A t \in Threads :
                \E i \in DOMAIN history :
                    history[i].user_message = threads[t].message
        /\ \A t \in Threads :
                threads[t].result.conversation_length <= max_history
        /\ session_stats.total_queries = Len(op.before) + Cardinality(Threads)

\* C17: the two query tallies can diverge: a /chat that runs adds 1 to the
\* total_queries of the agent and to that of the web layer, while /clear
\* sets the web layer's to 0 and leaves the agent's; so after a /clear that
\* follows at least one run the two differ.
C17_TalliesDiverge ==
    [][/\ (op'.name = "chat" /\ op'.ran) =>
            /\ session_stats'.total_queries = session_stats.total_queries + 1
            /\ web_stats'.total_queries = web_stats.total_queries + 1
       /\ (op'.name = "clear" /\ session_stats.total_queries > 0) =>
            /\ web_stats'.total_queries = 0
            /\ session_stats'.total_queries = session_stats.total_queries
            /\ web_stats'.total_queries # session_stats'.total_queries]_vars

\* /chat, /clear, /chat: the agent has counted 2 queries, the web layer 1
C17_Witness ==
    /\ op.name = "chat"
    /\ op.ran
    /\ session_stats.total_queries = 2
    /\ web_stats.total_queries = 1

\* the context digest of the history h: its last three interactions at most
RecentDigest(h) ==
    LET n == Len(h)
        from == IF n > 3 THEN n - 2 ELSE 1
    IN  IF n = 0 THEN s_start
        ELSE s_recent
             \o join(s_semicolon, [k \in 1..(n - from + 1) |-> Digest(h[from + k - 1])])

\* the learning progress of the history h as the prompt shows it
ProgressShown(h) ==
    LET seen == FirstSeen(h)
    IN  IF h = <<>> THEN s_new_learner
        ELSE <<"{">>
             \o join(s_comma,
                     [k \in DOMAIN seen |->
                        <<"'">> \o seen[k] \o <<"'", ":", " ">>
                        \o str(CountOf(h, seen[k]))])
             \o <<"}">>

\* C18: a run derives its response from the state before the current turn
\* is recorded: the summary of the "progress" branch and the context
\* summary and learning progress of the prompt are those of the history the
\* run found (a progress message as first turn is answered with the
\* not-started message); the turn is appended afterwards, so that without
\* truncation conversation_length is one more than the count summarised.
C18_ResponseFromPriorState ==
    (op.name = "chat" /\ op.ran) =>
        /\ op.result.category = s_progress =>
                op.result.response =
                    IF op.before = <<>> THEN s_welcome
                    ELSE s_summary_total \o str(Len(op.before))
                         \o s_summary_topics
                         \o join(s_comma, FirstSeen(op.before))
                         \o s_summary_most \o MostDiscussed(op.before)
        /\ op.completion.asked =>
                op.completion.prompt =
                    s_prompt_persona \o RecentDigest(op.before)
                    \o s_prompt_query \o op.message
                    \o s_prompt_category
                    \o classify_query(op.message, op.before)
                    \o s_prompt_progress \o ProgressShown(op.before)
                    \o s_prompt_instructions
        /\ RunSucceeded =>
                /\ Last(history) =
                        Interaction(op.message, op.result.response,
                                    op.result.category)
                /\ Len(op.before) < max_history =>
                        /\ history = Append(op.before, Last(history))
                        /\ op.result.conversation_length = Len(op.before) + 1

\* a progress message as second turn: the summary counts 1 question and one
\* topic, the reply reports a conversation of 2
C18_Witness ==
    /\ RunSucceeded
    /\ op.result.category = s_progress
    /\ Len(op.before) = 1
    /\ op.before[1].category # s_progress
    /\ op.result.response =
            s_summary_total \o <<"1">>
            \o s_summary_topics \o op.before[1].category
            \o s_summary_most \o op.before[1].category
    /\ op.result.conversation_length = 2
    /\ Last(history).category = s_progress

\* the category without its "followup_" prefixes
RECURSIVE BaseOf(_)
BaseOf(category) ==
    IF IsFollowUp(category)
    THEN BaseOf(SubSeq(category, Len(s_followup_) + 1, Len(category)))
    ELSE category

\* the ten categories of the rule table and "general"
BaseCategories == Range(TableOrder) \cup {s_general}

\* the text is an answer of the help or of the progress branch
LocalAnswer(text) ==
    \/ text = formatted_help
    \/ text = s_welcome
    \/ /\ Len(text) >= Len(s_summary_total)
       /\ SubSeq(text, 1, Len(s_summary_total)) = s_summary_total

\* C19: every category stored in history is one of the ten categories of
\* the rule table or "general", behind zero or more "followup_" prefixes;
\* "error" is never stored; and a turn stored with a follow-up category was
\* answered by the provider, not by the help or progress branch.
C19_StoredCategories ==
    /\ \A i \in DOMAIN history :
            /\ BaseOf(history[i].category) \in BaseCategories
            /\ history[i].category # s_error
            /\ IsFollowUp(history[i].category) =>
                    ~LocalAnswer(history[i].bot_response)
    /\ (RunSucceeded /\ IsFollowUp(op.result.category)) =>
            /\ op.completion.asked
            /\ Last(history).bot_response = format_response(op.completion.text)

\* "help", then "WHY help" stored as followup_help and answered by the
\* provider, then a follow-up of that follow-up
C19_Witness ==
    /\ Len(history) = 3
    /\ history[1].category = s_help
    /\ history[2].user_message = m_why_help
    /\ history[2].category = s_followup_ \o s_help
    /\ history[2].bot_response = format_response(c_qubit)
    /\ history[3].category = s_followup_ \o s_followup_ \o s_help

\* the sum of the counts of a category mapping
RECURSIVE SumOfCounts(_)
SumOfCounts(progress) ==
    IF progress = <<>> THEN 0
    ELSE progress[1].value + SumOfCounts(Tail(progress))

\* the categories a category mapping has as keys
KeysOf(progress) == {progress[i].key : i \in DOMAIN progress}

\* C20: get_learning_progress and the summary reflect only the bounded
\* window: the counts of the mapping sum to len(history) <= max_history; a
\* category all of whose interactions have been evicted is not a key of the
\* mapping; and once more than max_history turns have been recorded the
\* summary reports max_history questions, fewer than total_queries.
C20_WindowOnly ==
    LET progress == get_learning_progress(history)
    IN  /\ SumOfCounts(progress) = Len(history)
        /\ Len(history) <= max_history
        /\ \A i \in DOMAIN added :
                (\A k \in DOMAIN history :
                    history[k].category # added[i].category)
                => added[i].category \notin KeysOf(progress)
        /\ \A k \in DOMAIN history : history[k].category \in KeysOf(progress)
        /\ (op.name = "progress" /\ Len(added) > max_history) =>
                /\ SubSeq(op.http.summary, 1,
                          Len(s_summary_total) + Len(str(max_history))
                          + Len(s_summary_topics))
                   = s_summary_total \o str(max_history) \o s_summary_topics
                /\ session_stats.total_queries > max_history

\* the summary after eleven recorded turns: the category of the first turn
\* has left the mapping and the summary counts ten questions
C20_Witness ==
    /\ op.name = "progress"
    /\ Len(added) = DefaultMaxHistory + 1
    /\ Len(history) = DefaultMaxHistory
    /\ session_stats.total_queries >= DefaultMaxHistory + 1
    /\ added[1].category = rules[4].category
    /\ rules[4].category \notin KeysOf(get_learning_progress(history))
    /\ SubSeq(op.http.summary, 1, Len(s_summary_total) + 2)
            = s_summary_total \o <<"1", "0">>

====
